---- MODULE Spec2Model ----
(***************************************************************************)
(* pixelplotter (src/pixelplotter.py): the ChartDigitizer controller as a  *)
(* state machine.  One action per event handler; the state is the          *)
(* controller's fields, the four axis-value Entry widgets, the Treeview     *)
(* rows and the status-bar labels.                                          *)
(*                                                                         *)
(* Numbers.  A Python float is modelled as an exact rational <<n, d>> in    *)
(* lowest terms with d > 0, extended with <<1,0>> (inf), <<-1,0>> (-inf)    *)
(* and <<0,0>> (nan).  Binary rounding error and overflow of IEEE doubles   *)
(* are not modelled; the special values and their arithmetic are.           *)
(*                                                                         *)
(* Text.  A piece of text is a tuple: <<"">> the empty string, <<"abc">> a  *)
(* non-numeric string, <<"inf">>, <<"-inf">>, <<"nan">>, and <<"dec", m, e>>*)
(* the decimal numeral whose value is m * 10^e with m not divisible by 10,  *)
(* which is how "%.6g" output and typed numerals are kept.  The text       *)
(* written by str() of a float is <<"float", m, e>> ("50.0", not "50").     *)
(***************************************************************************)
EXTENDS Integers, Sequences, FiniteSets, TLC

VARIABLES
  image,            \* self.image: None or the loaded image's <<width, height>>
  scale,            \* self.scale
  offset_x,         \* self.offset_x
  offset_y,         \* self.offset_y
  drag_start,       \* self.drag_start: None or <<x, y>>
  axis_points,      \* self.axis_points
  data_points,      \* self.data_points
  panning_by_shift, \* self.panning_by_shift
  x0_entry,         \* text of self.x0_entry
  x1_entry,         \* text of self.x1_entry
  y0_entry,         \* text of self.y0_entry
  y1_entry,         \* text of self.y1_entry
  tree,             \* rows of self.tree, each <<index, px, py, x, y>>
  pixel_label,      \* what self.pixel_label shows
  calib_label,      \* what self.calib_label shows
  output            \* what the last handler showed, wrote or plotted

vars ==
  <<image, scale, offset_x, offset_y, drag_start, axis_points, data_points,
    panning_by_shift, x0_entry, x1_entry, y0_entry, y1_entry, tree,
    pixel_label, calib_label, output>>

view == <<scale, offset_x, offset_y>>
entries == <<x0_entry, x1_entry, y0_entry, y1_entry>>
labels == <<pixel_label, calib_label>>

-----------------------------------------------------------------------------
(* Bounds of the model. *)

\* most data points a session collects
MaxData ==
  2

\* most zoom steps away from scale 1.0 since the last reset
MaxZoom ==
  1

\* largest |offset| a pan may reach, in screen pixels
MaxOffset ==
  5

-----------------------------------------------------------------------------
(* Python values. *)

None == <<>>

ValueError == <<"ValueError">>

Abs(i) == IF i < 0 THEN -i ELSE i

Sign(i) == IF i > 0 THEN 1 ELSE IF i < 0 THEN -1 ELSE 0

RECURSIVE GCD(_, _)
GCD(a, b) == IF b = 0 THEN a ELSE GCD(b, a % b)

RECURSIVE Pow10(_)
Pow10(k) == IF k <= 0 THEN 1 ELSE 10 * Pow10(k - 1)

\* the float n/d: lowest terms, d > 0; n/0 is inf, -inf or nan
Float(n, d) ==
  IF d = 0 THEN <<Sign(n), 0>>
  ELSE LET g == GCD(Abs(n), Abs(d))
       IN  <<(Sign(d) * n) \div g, Abs(d) \div g>>

IsFinite(a) == a[2] # 0

IsNaN(a) == a[1] = 0 /\ a[2] = 0

\* a + b on floats: inf + inf = inf, inf - inf = nan
FAdd(a, b) ==
  IF a[2] = 0 /\ b[2] = 0
  THEN (IF a[1] = b[1] THEN a ELSE <<0, 0>>)
  ELSE Float(a[1] * b[2] + b[1] * a[2], a[2] * b[2])

FNeg(a) == <<-a[1], a[2]>>

FSub(a, b) == FAdd(a, FNeg(b))

\* a * b on floats: inf * 0 = nan
FMul(a, b) ==
  LET g1 == GCD(Abs(a[1]), b[2])
      g2 == GCD(Abs(b[1]), a[2])
  IN  IF a[2] = 0 \/ b[2] = 0 THEN Float(a[1] * b[1], 0)
      ELSE Float((a[1] \div g1) * (b[1] \div g2), (a[2] \div g2) * (b[2] \div g1))

\* a / b on floats, for b a nonzero finite number (the code guards the rest)
FDiv(a, b) == FMul(a, <<Sign(b[1]) * b[2], Abs(b[1])>>)

\* int(a): truncation toward zero
int(a) ==
  IF a[1] >= 0 THEN a[1] \div a[2] ELSE -((-a[1]) \div a[2])

\* round(a): to the nearest integer, ties to even
round(a) ==
  LET fl == a[1] \div a[2]
      r2 == 2 * (a[1] % a[2])
  IN  IF r2 > a[2] THEN fl + 1
      ELSE IF r2 < a[2] THEN fl
      ELSE IF fl % 2 = 0 THEN fl ELSE fl + 1

max(a, b) == IF a >= b THEN a ELSE b

min(a, b) == IF a <= b THEN a ELSE b

-----------------------------------------------------------------------------
(* Text: float(text), "%.6g" % float, str(float). *)

EmptyText == <<"">>

\* the decimal numeral of the integer or decimal m * 10^e, normalised
RECURSIVE Dec(_, _)
Dec(m, e) ==
  IF m = 0 THEN <<"dec", 0, 0>>
  ELSE IF m % 10 = 0 THEN Dec(m \div 10, e + 1)
  ELSE <<"dec", m, e>>

\* float(text): the number a text parses to, or ValueError
float(t) ==
  CASE t[1] = "dec"   -> (IF t[3] >= 0 THEN Float(t[2] * Pow10(t[3]), 1)
                          ELSE Float(t[2], Pow10(-t[3])))
    [] t[1] = "float" -> (IF t[3] >= 0 THEN Float(t[2] * Pow10(t[3]), 1)
                          ELSE Float(t[2], Pow10(-t[3])))
    [] t[1] = "inf"   -> <<1, 0>>
    [] t[1] = "-inf"  -> <<-1, 0>>
    [] t[1] = "nan"   -> <<0, 0>>
    [] OTHER          -> ValueError

\* floor(log10(n/d)) for n, d > 0
RECURSIVE FloorLog10(_, _)
FloorLog10(n, d) ==
  IF n < d THEN FloorLog10(10 * n, d) - 1
  ELSE IF n < 10 * d THEN 0
  ELSE FloorLog10(n, 10 * d) + 1

\* n/d (n, d > 0) rounded to the nearest integer, ties to even
RoundHalfEven(n, d) ==
  LET fl == n \div d
      r2 == 2 * (n % d)
  IN  IF r2 > d THEN fl + 1
      ELSE IF r2 < d THEN fl
      ELSE IF fl % 2 = 0 THEN fl ELSE fl + 1

\* the six significant digits of |a| and their exponent: <<m, e>>, |a| ~ m * 10^e
SixDigits(a) ==
  LET n  == Abs(a[1])
      d  == a[2]
      x  == FloorLog10(n, d)
      g  == GCD(Pow10(5 - x), d)
      m  == IF x <= 5 THEN RoundHalfEven(n * (Pow10(5 - x) \div g), d \div g)
            ELSE RoundHalfEven(n, d * Pow10(x - 5))
  IN  IF m = 1000000 THEN <<100000, x - 4>> ELSE <<m, x - 5>>

\* f"{a:.6g}"
Format6g(a) ==
  IF a[2] = 0
  THEN (IF a[1] > 0 THEN <<"inf">> ELSE IF a[1] < 0 THEN <<"-inf">> ELSE <<"nan">>)
  ELSE IF a[1] = 0 THEN Dec(0, 0)
  ELSE LET s == SixDigits(a) IN Dec(Sign(a[1]) * s[1], s[2])

\* str(a) of a float, for the floats that float("%.6g" text) yields:
\* the same digits, always written with a fraction or an exponent
StrFloat(a) ==
  IF a[2] = 0
  THEN (IF a[1] > 0 THEN <<"inf">> ELSE IF a[1] < 0 THEN <<"-inf">> ELSE <<"nan">>)
  ELSE LET t == Format6g(a) IN <<"float", t[2], t[3]>>

\* str(k) of an int
StrInt(k) == <<"int", k>>

-----------------------------------------------------------------------------
(* Inputs of the model. *)

\* the <<width, height>> of the images the user can open
ImageSizes == {<<2, 2>>}

\* where clicks and drag motions happen on the canvas: beyond two corners of
\* the image, so a click is clamped to the corner pixel
Pointer == {<<0, 5>>, <<5, 0>>}

\* where the wheel is turned
WheelAt == {<<5, 0>>}

\* where a pan is started (middle button or Shift+Left pressed)
PressAt == {<<0, 5>>}

\* what the user types into the axis-value Entry of X0, X1, Y0, Y1 (or clears it)
AxisValueTexts == <<Dec(0, 0), Dec(1, 0), Dec(0, 0), Dec(1, 0)>>

EntryTexts(k) == {EmptyText, AxisValueTexts[k]}

NoOutput == [kind |-> "none", text |-> "", rows |-> <<>>]

ShowError(title) == [kind |-> "showerror", text |-> title, rows |-> <<>>]

ShowInfo(title) == [kind |-> "showinfo", text |-> title, rows |-> <<>>]

NoPixel == <<"Pixel: -, -">>

NoCalib == <<"Calib: -, -">>

-----------------------------------------------------------------------------
(* Sequence helpers. *)

RECURSIVE SelectRows(_, _, _)
\* the rows of t at positions i.. that are not in sel, in order
SelectRows(t, sel, i) ==
  IF i > Len(t) THEN <<>>
  ELSE IF i \in sel THEN SelectRows(t, sel, i + 1)
  ELSE <<t[i]>> \o SelectRows(t, sel, i + 1)

RECURSIVE IndexOf(_, _, _)
\* the first position >= i of s holding v, or 0
IndexOf(s, v, i) ==
  IF i > Len(s) THEN 0
  ELSE IF s[i] = v THEN i
  ELSE IndexOf(s, v, i + 1)

\* list.remove(v): s without its first v (ValueError is swallowed by the caller)
Remove(s, v) ==
  LET k == IndexOf(s, v, 1)
  IN  IF k = 0 THEN s
      ELSE [i \in 1..(Len(s) - 1) |-> IF i < k THEN s[i] ELSE s[i + 1]]

SetMin(S) == CHOOSE m \in S : \A k \in S : m <= k

-----------------------------------------------------------------------------
(* Calibration. *)

\* CalibratedPoint without the inversion of the image's Y axis
CalibratedPoint_no_flip(img, axis, e0, e1, e2, e3, img_x, img_y) ==
  IF img = None \/ Len(axis) # 4 THEN None
  ELSE
    LET x0_val == float(e0)
        x1_val == float(e1)
        y0_val == float(e2)
        y1_val == float(e3)
    IN  IF ValueError \in {x0_val, x1_val, y0_val, y1_val} THEN None
        ELSE
          LET x0_px == axis[1][1]
              x1_px == axis[2][1]
              y0_py == axis[3][2]
              y1_py == axis[4][2]
          IN  IF x1_px = x0_px \/ y0_py = y1_py THEN None
              ELSE
                LET x_scale == FDiv(FSub(x1_val, x0_val), Float(x1_px - x0_px, 1))
                    y_scale == FDiv(FSub(y1_val, y0_val), Float(y0_py - y1_py, 1))
                    x_val == FAdd(x0_val, FMul(FSub(img_x, Float(x0_px, 1)), x_scale))
                    y_val == FAdd(y0_val, FMul(FSub(img_y, Float(y0_py, 1)), y_scale))
                IN  <<x_val, y_val>>

\* compute_calibrated_point with the state passed in: None or <<x_val, y_val>>
CalibratedPoint(img, axis, e0, e1, e2, e3, img_x, img_y) ==
  IF img = None \/ Len(axis) # 4 THEN None
  ELSE
    LET x0_val == float(e0)
        x1_val == float(e1)
        y0_val == float(e2)
        y1_val == float(e3)
    IN  IF ValueError \in {x0_val, x1_val, y0_val, y1_val} THEN None
        ELSE
          LET x0_px == axis[1][1]
              x1_px == axis[2][1]
              y0_py == axis[3][2]
              y1_py == axis[4][2]
          IN  IF x1_px = x0_px \/ y0_py = y1_py THEN None
              ELSE
                LET x_scale == FDiv(FSub(x1_val, x0_val), Float(x1_px - x0_px, 1))
                    y_scale == FDiv(FSub(y1_val, y0_val), Float(y0_py - y1_py, 1))
                    x_val == FAdd(x0_val, FMul(FSub(img_x, Float(x0_px, 1)), x_scale))
                    y_val == FAdd(y0_val, FMul(FSub(Float(y0_py, 1), img_y), y_scale))
                IN  <<x_val, y_val>>

\* self.compute_calibrated_point(img_x, img_y) in the current state
compute_calibrated_point(img_x, img_y) ==
  CalibratedPoint(image, axis_points, x0_entry, x1_entry, y0_entry, y1_entry,
                  img_x, img_y)

\* TableRow numbering the rows from 0 (enumerate without start=1)
TableRow_zero_based(i, px, py) ==
  LET calib == compute_calibrated_point(Float(px, 1), Float(py, 1))
  IN  IF calib = None
      THEN <<i - 1, px, py, EmptyText, EmptyText>>
      ELSE <<i - 1, px, py, Format6g(calib[1]), Format6g(calib[2])>>

\* the Treeview row for data point number i at pixel (px, py)
TableRow(i, px, py) ==
  LET calib == compute_calibrated_point(Float(px, 1), Float(py, 1))
  IN  IF calib = None
      THEN <<i, px, py, EmptyText, EmptyText>>
      ELSE <<i, px, py, Format6g(calib[1]), Format6g(calib[2])>>

\* RefreshedTree inserting the rows without deleting the tree's children first
RefreshedTree_keeps_rows(t, dp) ==
  t \o [i \in 1..Len(dp) |-> TableRow(i, dp[i][1], dp[i][2])]

\* the tree refresh_table leaves when run on tree t with data points dp: every
\* child deleted, then one row inserted per data point
RefreshedTree(t, dp) ==
  LET cleared == SubSeq(t, 1, 0)
  IN  cleared \o [i \in 1..Len(dp) |-> TableRow(i, dp[i][1], dp[i][2])]

\* the rows refresh_table leaves in the tree for the data points dp
refresh_table(dp) == RefreshedTree(tree, dp)

\* ClickPixel storing the resolved coordinate as it is
ClickPixel_unclamped(ex, ey) ==
  <<int(FDiv(FSub(Float(ex, 1), offset_x), scale)),
    int(FDiv(FSub(Float(ey, 1), offset_y), scale))>>

\* the image pixel a click at screen (ex, ey) resolves to, clamped to the image
ClickPixel(ex, ey) ==
  LET img_x == int(FDiv(FSub(Float(ex, 1), offset_x), scale))
      img_y == int(FDiv(FSub(Float(ey, 1), offset_y), scale))
      w == image[1]
      h == image[2]
  IN  <<max(0, min(w - 1, img_x)), max(0, min(h - 1, img_y))>>

\* the image coordinate under screen (mx, my): ((mx - offset_x)/scale, (my - offset_y)/scale)
ToImage(mx, my, sc, ox, oy) ==
  <<FDiv(FSub(Float(mx, 1), ox), sc), FDiv(FSub(Float(my, 1), oy), sc)>>

-----------------------------------------------------------------------------
(* The initial state: ChartDigitizer.__init__. *)

Init ==
  /\ image = None
  /\ scale = Float(1, 1)
  /\ offset_x = Float(0, 1)
  /\ offset_y = Float(0, 1)
  /\ drag_start = None
  /\ axis_points = <<>>
  /\ data_points = <<>>
  /\ panning_by_shift = FALSE
  /\ x0_entry = EmptyText
  /\ x1_entry = EmptyText
  /\ y0_entry = EmptyText
  /\ y1_entry = EmptyText
  /\ tree = <<>>
  /\ pixel_label = NoPixel
  /\ calib_label = NoCalib
  /\ output = NoOutput

-----------------------------------------------------------------------------
(* Handlers. *)

\* update_status(pixel_tuple, calib_tuple): the two label texts
PixelText(pixel_tuple) ==
  IF pixel_tuple = None THEN NoPixel
  ELSE <<"Pixel", pixel_tuple[1], pixel_tuple[2]>>

CalibText(calib_tuple) ==
  IF calib_tuple = None THEN NoCalib
  ELSE <<"Calib", Format6g(calib_tuple[1]), Format6g(calib_tuple[2])>>

\* reset_view(keep_table=False), as load_image calls it
reset_view ==
  /\ scale' = Float(1, 1)
  /\ offset_x' = Float(0, 1)
  /\ offset_y' = Float(0, 1)
  /\ drag_start' = None
  /\ axis_points' = <<>>
  /\ data_points' = <<>>
  /\ pixel_label' = PixelText(None)
  /\ calib_label' = CalibText(None)
  /\ tree' = <<>>

\* load_image resetting the view and the points before it looks at what
\* cv2.imread returned
load_image_resets_before_read(choice, img) ==
  CASE choice = "cancel" ->
         /\ output' = NoOutput
         /\ UNCHANGED <<image, view, drag_start, axis_points, data_points,
                        panning_by_shift, entries, tree, labels>>
    [] choice = "unreadable" ->
         /\ reset_view
         /\ output' = ShowError("Load error")
         /\ UNCHANGED <<image, panning_by_shift, entries>>
    [] OTHER ->
         /\ image' = img
         /\ reset_view
         /\ output' = NoOutput
         /\ UNCHANGED <<panning_by_shift, entries>>

\* load_image: the file dialog is cancelled ("cancel"), cv2.imread fails
\* ("unreadable"), or an image of size img is read
load_image(choice, img) ==
  CASE choice = "cancel" ->
         /\ output' = NoOutput
         /\ UNCHANGED <<image, view, drag_start, axis_points, data_points,
                        panning_by_shift, entries, tree, labels>>
    [] choice = "unreadable" ->
         /\ output' = ShowError("Load error")
         /\ UNCHANGED <<image, view, drag_start, axis_points, data_points,
                        panning_by_shift, entries, tree, labels>>
    [] OTHER ->
         /\ image' = img
         /\ reset_view
         /\ output' = NoOutput
         /\ UNCHANGED <<panning_by_shift, entries>>

\* on_left_click testing len(self.axis_points) <= 4
on_left_click_off_by_one(ex, ey) ==
  /\ output' = NoOutput
  /\ IF panning_by_shift \/ image = None
     THEN UNCHANGED <<image, view, drag_start, axis_points, data_points,
                      panning_by_shift, entries, tree, labels>>
     ELSE
       LET p == ClickPixel(ex, ey)
       IN  IF Len(axis_points) <= 4
           THEN /\ axis_points' = Append(axis_points, p)
                /\ UNCHANGED <<image, view, drag_start, data_points,
                               panning_by_shift, entries, tree, labels>>
           ELSE /\ data_points' = Append(data_points, p)
                /\ tree' = Append(tree, TableRow(Len(data_points) + 1, p[1], p[2]))
                /\ UNCHANGED <<image, view, drag_start, axis_points,
                               panning_by_shift, entries, labels>>

\* on_left_click dropping a data point whose pixel is already stored
on_left_click_skips_duplicates(ex, ey) ==
  /\ output' = NoOutput
  /\ IF panning_by_shift \/ image = None
     THEN UNCHANGED <<image, view, drag_start, axis_points, data_points,
                      panning_by_shift, entries, tree, labels>>
     ELSE
       LET p == ClickPixel(ex, ey)
       IN  IF Len(axis_points) < 4
           THEN /\ axis_points' = Append(axis_points, p)
                /\ UNCHANGED <<image, view, drag_start, data_points,
                               panning_by_shift, entries, tree, labels>>
           ELSE IF \E i \in 1..Len(data_points) : data_points[i] = p
           THEN UNCHANGED <<image, view, drag_start, axis_points, data_points,
                            panning_by_shift, entries, tree, labels>>
           ELSE /\ data_points' = Append(data_points, p)
                /\ tree' = Append(tree, TableRow(Len(data_points) + 1, p[1], p[2]))
                /\ UNCHANGED <<image, view, drag_start, axis_points,
                               panning_by_shift, entries, labels>>

\* on_left_click(event) with event.x = ex, event.y = ey
on_left_click(ex, ey) ==
  /\ output' = NoOutput
  /\ IF panning_by_shift \/ image = None
     THEN UNCHANGED <<image, view, drag_start, axis_points, data_points,
                      panning_by_shift, entries, tree, labels>>
     ELSE
       LET p == ClickPixel(ex, ey)
       IN  IF Len(axis_points) < 4
           THEN /\ axis_points' = Append(axis_points, p)
                /\ UNCHANGED <<image, view, drag_start, data_points,
                               panning_by_shift, entries, tree, labels>>
           ELSE /\ data_points' = Append(data_points, p)
                /\ tree' = Append(tree, TableRow(Len(data_points) + 1, p[1], p[2]))
                /\ UNCHANGED <<image, view, drag_start, axis_points,
                               panning_by_shift, entries, labels>>

\* the data points delete_selected rebuilds from the rows left in the tree
RebuiltPoints(rows) == [i \in 1..Len(rows) |-> <<rows[i][2], rows[i][3]>>]

RECURSIVE DeletedInPlace(_, _, _)
\* s after "del s[idx]" for each selected position from i on, in order, each
\* index taken from the row's number as it was before the deletions
DeletedInPlace(s, sel, i) ==
  IF i > Len(s) + Cardinality(sel) THEN s
  ELSE IF i \in sel /\ i <= Len(s)
       THEN DeletedInPlace([k \in 1..(Len(s) - 1) |-> IF k < i THEN s[k] ELSE s[k + 1]],
                           sel, i + 1)
       ELSE DeletedInPlace(s, sel, i + 1)

\* delete_selected deleting from data_points in place, by row number
delete_selected_in_place(sel) ==
  /\ output' = NoOutput
  /\ IF sel = {}
     THEN UNCHANGED <<data_points, tree>>
     ELSE LET new_points == DeletedInPlace(data_points, sel, 1)
          IN  /\ data_points' = new_points
              /\ tree' = refresh_table(new_points)
  /\ UNCHANGED <<image, view, drag_start, axis_points, panning_by_shift,
                 entries, labels>>

\* delete_selected with the rows at positions sel selected
delete_selected(sel) ==
  /\ output' = NoOutput
  /\ IF sel = {}
     THEN UNCHANGED <<data_points, tree>>
     ELSE LET new_points == RebuiltPoints(SelectRows(tree, sel, 1))
          IN  /\ data_points' = new_points
              /\ tree' = refresh_table(new_points)
  /\ UNCHANGED <<image, view, drag_start, axis_points, panning_by_shift,
                 entries, labels>>

\* clear_table emptying the axis points along with the data points
clear_table_clears_axes ==
  /\ tree' = <<>>
  /\ data_points' = <<>>
  /\ axis_points' = <<>>
  /\ output' = NoOutput
  /\ UNCHANGED <<image, view, drag_start, panning_by_shift, entries, labels>>

\* clear_table, from the "Clear Table" button
clear_table ==
  /\ tree' = <<>>
  /\ data_points' = <<>>
  /\ output' = NoOutput
  /\ UNCHANGED <<image, view, drag_start, axis_points, panning_by_shift,
                 entries, labels>>

\* edit_entry (double click on the table) with the rows at positions sel selected
edit_entry(sel) ==
  IF sel = {}
  THEN /\ output' = NoOutput
       /\ UNCHANGED <<image, view, drag_start, axis_points, data_points,
                      panning_by_shift, entries, tree, labels>>
  ELSE LET vals == tree[SetMin(sel)]
           new_points == Remove(data_points, <<vals[2], vals[3]>>)
       IN  /\ data_points' = new_points
           /\ tree' = refresh_table(new_points)
           /\ output' = ShowInfo("Edit")
           /\ UNCHANGED <<image, view, drag_start, axis_points,
                          panning_by_shift, entries, labels>>

\* ZoomFactor with the zoom-out factor 1/1.1
ZoomFactor_reciprocal(delta) == IF delta > 0 THEN Float(11, 10) ELSE Float(10, 11)

\* ZoomFactor with a zoom-out factor that takes the scale through zero
ZoomFactor_negative_out(delta) == IF delta > 0 THEN Float(11, 10) ELSE Float(-9, 10)

\* the factor of one zoom step: delta > 0 zooms in
ZoomFactor(delta) == IF delta > 0 THEN Float(11, 10) ELSE Float(9, 10)

\* ZoomedView recomputing the offsets with the scale before the step
ZoomedView_old_scale(mx, my, delta, sc, ox, oy) ==
  LET factor == ZoomFactor(delta)
      ix_before == FDiv(FSub(Float(mx, 1), ox), sc)
      iy_before == FDiv(FSub(Float(my, 1), oy), sc)
      new_scale == FMul(sc, factor)
  IN  <<new_scale,
        FSub(Float(mx, 1), FMul(ix_before, sc)),
        FSub(Float(my, 1), FMul(iy_before, sc))>>

\* the view <<scale, offset_x, offset_y>> after a zoom step at (mx, my)
ZoomedView(mx, my, delta, sc, ox, oy) ==
  LET factor == ZoomFactor(delta)
      ix_before == FDiv(FSub(Float(mx, 1), ox), sc)
      iy_before == FDiv(FSub(Float(my, 1), oy), sc)
      new_scale == FMul(sc, factor)
  IN  <<new_scale,
        FSub(Float(mx, 1), FMul(ix_before, new_scale)),
        FSub(Float(my, 1), FMul(iy_before, new_scale))>>

\* on_zoom without the test for a loaded image
on_zoom_without_image(mx, my, delta) ==
  /\ output' = NoOutput
  /\ LET v == ZoomedView(mx, my, delta, scale, offset_x, offset_y)
     IN  /\ scale' = v[1]
         /\ offset_x' = v[2]
         /\ offset_y' = v[3]
  /\ tree' = refresh_table(data_points)
  /\ UNCHANGED <<image, drag_start, axis_points, data_points, panning_by_shift,
                 entries, labels>>

\* on_zoom(event, delta) with event.x = mx, event.y = my
on_zoom(mx, my, delta) ==
  /\ output' = NoOutput
  /\ IF image = None
     THEN UNCHANGED <<view, tree>>
     ELSE /\ LET v == ZoomedView(mx, my, delta, scale, offset_x, offset_y)
             IN  /\ scale' = v[1]
                 /\ offset_x' = v[2]
                 /\ offset_y' = v[3]
          /\ tree' = refresh_table(data_points)
  /\ UNCHANGED <<image, drag_start, axis_points, data_points, panning_by_shift,
                 entries, labels>>

\* start_pan(event): middle button pressed at (ex, ey)
start_pan(ex, ey) ==
  /\ drag_start' = <<ex, ey>>
  /\ panning_by_shift' = FALSE
  /\ output' = NoOutput
  /\ UNCHANGED <<image, view, axis_points, data_points, entries, tree, labels>>

\* start_pan_shift(event): Shift+Left pressed at (ex, ey)
start_pan_shift(ex, ey) ==
  /\ drag_start' = <<ex, ey>>
  /\ panning_by_shift' = TRUE
  /\ output' = NoOutput
  /\ UNCHANGED <<image, view, axis_points, data_points, entries, tree, labels>>

\* do_pan leaving the drag anchor at the press position
do_pan_stale_anchor(ex, ey) ==
  /\ output' = NoOutput
  /\ IF drag_start = None
     THEN UNCHANGED <<view, drag_start, tree>>
     ELSE LET dx == ex - drag_start[1]
              dy == ey - drag_start[2]
          IN  /\ offset_x' = FAdd(offset_x, Float(dx, 1))
              /\ offset_y' = FAdd(offset_y, Float(dy, 1))
              /\ tree' = refresh_table(data_points)
              /\ UNCHANGED <<scale, drag_start>>
  /\ UNCHANGED <<image, axis_points, data_points, panning_by_shift, entries,
                 labels>>

\* do_pan(event): drag motion to (ex, ey)
do_pan(ex, ey) ==
  /\ output' = NoOutput
  /\ IF drag_start = None
     THEN UNCHANGED <<view, drag_start, tree>>
     ELSE LET dx == ex - drag_start[1]
              dy == ey - drag_start[2]
          IN  /\ offset_x' = FAdd(offset_x, Float(dx, 1))
              /\ offset_y' = FAdd(offset_y, Float(dy, 1))
              /\ drag_start' = <<ex, ey>>
              /\ tree' = refresh_table(data_points)
              /\ UNCHANGED scale
  /\ UNCHANGED <<image, axis_points, data_points, panning_by_shift, entries,
                 labels>>

\* end_pan clearing the drag anchor only
end_pan_keeps_flag ==
  /\ drag_start' = None
  /\ output' = NoOutput
  /\ UNCHANGED <<image, view, axis_points, data_points, panning_by_shift,
                 entries, tree, labels>>

\* end_pan(event): middle button or Shift+Left released
end_pan ==
  /\ drag_start' = None
  /\ panning_by_shift' = FALSE
  /\ output' = NoOutput
  /\ UNCHANGED <<image, view, axis_points, data_points, entries, tree, labels>>

\* the user replaces the text of one axis-value Entry (k = 1..4: X0, X1, Y0, Y1)
type_entry(k, t) ==
  /\ x0_entry' = IF k = 1 THEN t ELSE x0_entry
  /\ x1_entry' = IF k = 2 THEN t ELSE x1_entry
  /\ y0_entry' = IF k = 3 THEN t ELSE y0_entry
  /\ y1_entry' = IF k = 4 THEN t ELSE y1_entry
  /\ output' = NoOutput
  /\ UNCHANGED <<image, view, drag_start, axis_points, data_points,
                 panning_by_shift, tree, labels>>

\* on_mouse_move(event) with event.x = ex, event.y = ey
on_mouse_move(ex, ey) ==
  /\ output' = NoOutput
  /\ IF image = None
     THEN /\ pixel_label' = PixelText(None)
          /\ calib_label' = CalibText(None)
     ELSE LET img_x == FDiv(FSub(Float(ex, 1), offset_x), scale)
              img_y == FDiv(FSub(Float(ey, 1), offset_y), scale)
              w == image[1]
              h == image[2]
              px == max(0, min(w - 1, round(img_x)))
              py == max(0, min(h - 1, round(img_y)))
          IN  /\ pixel_label' = PixelText(<<px, py>>)
              /\ calib_label' = CalibText(compute_calibrated_point(img_x, img_y))
  /\ UNCHANGED <<image, view, drag_start, axis_points, data_points,
                 panning_by_shift, entries, tree>>

\* reset_all clearing the axis points and the view but not the data points
reset_all_keeps_data ==
  /\ axis_points' = <<>>
  /\ scale' = Float(1, 1)
  /\ offset_x' = Float(0, 1)
  /\ offset_y' = Float(0, 1)
  /\ drag_start' = None
  /\ panning_by_shift' = FALSE
  /\ x0_entry' = EmptyText
  /\ x1_entry' = EmptyText
  /\ y0_entry' = EmptyText
  /\ y1_entry' = EmptyText
  /\ pixel_label' = PixelText(None)
  /\ calib_label' = CalibText(None)
  /\ output' = NoOutput
  /\ UNCHANGED <<image, data_points, tree>>

\* reset_all, from the "Reset" button
reset_all ==
  /\ axis_points' = <<>>
  /\ data_points' = <<>>
  /\ scale' = Float(1, 1)
  /\ offset_x' = Float(0, 1)
  /\ offset_y' = Float(0, 1)
  /\ drag_start' = None
  /\ panning_by_shift' = FALSE
  /\ x0_entry' = EmptyText
  /\ x1_entry' = EmptyText
  /\ y0_entry' = EmptyText
  /\ y1_entry' = EmptyText
  /\ pixel_label' = PixelText(None)
  /\ calib_label' = CalibText(None)
  /\ tree' = <<>>
  /\ output' = NoOutput
  /\ UNCHANGED image

-----------------------------------------------------------------------------
(* Conversion, CSV, plot. *)

\* convert_points: <<"error", message>> after a messagebox.showerror, or
\* <<"ok", converted>> with converted the list of <<px, py, x_val, y_val>>
convert_points ==
  IF Len(axis_points) # 4 THEN <<"error", "exactly 4 axis points">>
  ELSE
    LET x0_val == float(x0_entry)
        x1_val == float(x1_entry)
        y0_val == float(y0_entry)
        y1_val == float(y1_entry)
    IN  IF ValueError \in {x0_val, x1_val, y0_val, y1_val}
        THEN <<"error", "numeric axis values">>
        ELSE
          LET x0_px == axis_points[1][1]
              x1_px == axis_points[2][1]
              y0_py == axis_points[3][2]
              y1_py == axis_points[4][2]
          IN  IF x1_px = x0_px \/ y0_py = y1_py
              THEN <<"error", "zero division">>
              ELSE
                LET x_scale == FDiv(FSub(x1_val, x0_val), Float(x1_px - x0_px, 1))
                    y_scale == FDiv(FSub(y1_val, y0_val), Float(y0_py - y1_py, 1))
                IN  <<"ok",
                      [i \in 1..Len(data_points) |->
                         LET px == data_points[i][1]
                             py == data_points[i][2]
                         IN  <<px, py,
                               FAdd(x0_val, FMul(Float(px - x0_px, 1), x_scale)),
                               FAdd(y0_val, FMul(Float(y0_py - py, 1), y_scale))>>]>>

\* float(cell) if cell != "" else None, for a table cell
CellValue(cell) == IF cell = EmptyText THEN None ELSE float(cell)

\* the rows export_csv reads from the table: <<px, py, cx, cy>>
ExportTableRows ==
  [i \in 1..Len(tree) |->
     <<tree[i][2], tree[i][3], CellValue(tree[i][4]), CellValue(tree[i][5])>>]

\* one line of the CSV file for a row <<px, py, cx, cy>>
CsvLine(r) ==
  <<StrInt(r[1]), StrInt(r[2]),
    IF r[3] = None THEN EmptyText ELSE StrFloat(r[3]),
    IF r[4] = None THEN EmptyText ELSE StrFloat(r[4])>>

CsvHeader == << <<"PixelX">>, <<"PixelY">>, <<"CalibX">>, <<"CalibY">> >>

\* the file export_csv writes for rows
CsvFile(rows) == <<CsvHeader>> \o [i \in 1..Len(rows) |-> CsvLine(rows[i])]

\* what export_csv does, as the output of the handler; save is what the save
\* dialog and the file system do: "cancel", "ok" or "unwritable"
ExportOutput(save) ==
  LET table_rows == ExportTableRows
      converted  == convert_points
      fallback   == table_rows = <<>> /\ data_points # <<>>
      rows       == IF fallback /\ converted[1] = "ok" THEN converted[2]
                    ELSE table_rows
  IN  IF fallback /\ converted[1] = "error" THEN ShowError(converted[2])
      ELSE IF rows = <<>> THEN ShowInfo("No points to export.")
      ELSE IF save = "cancel" THEN NoOutput
      ELSE IF save = "unwritable" THEN ShowError("Save error")
      ELSE [kind |-> "csv", text |-> "Saved", rows |-> CsvFile(rows)]

\* export_csv
export_csv(save) ==
  /\ output' = ExportOutput(save)
  /\ UNCHANGED <<image, view, drag_start, axis_points, data_points,
                 panning_by_shift, entries, tree, labels>>

\* the pair plot_data takes from one table row: calibrated or pixel
PlotPair(vals) ==
  LET cx == CellValue(vals[4])
      cy == CellValue(vals[5])
  IN  IF cx # None /\ cy # None
      THEN <<"calib", cx, cy>>
      ELSE <<"pixel", Float(vals[2], 1), Float(vals[3], 1)>>

\* the pairs plot_data reads from the table
PlotTableRows == [i \in 1..Len(tree) |-> PlotPair(tree[i])]

\* what plot_data does, as the output of the handler
PlotOutput ==
  LET table_rows == PlotTableRows
      converted  == convert_points
      fallback   == table_rows = <<>> /\ data_points # <<>>
      rows       == IF fallback /\ converted[1] = "ok"
                    THEN [i \in 1..Len(converted[2]) |->
                            <<"calib", converted[2][i][3], converted[2][i][4]>>]
                    ELSE table_rows
  IN  IF fallback /\ converted[1] = "error" THEN ShowError(converted[2])
      ELSE IF rows = <<>> THEN ShowInfo("No data points to plot.")
      ELSE [kind |-> "plot", text |-> "Digitized Chart Data", rows |-> rows]

\* plot_data
plot_data ==
  /\ output' = PlotOutput
  /\ UNCHANGED <<image, view, drag_start, axis_points, data_points,
                 panning_by_shift, entries, tree, labels>>

-----------------------------------------------------------------------------
(* The program: any handler, on any event.  The bounds of the model are     *)
(* guards here, not part of the handlers.                                   *)

\* the number of zoom steps since the scale was 1.0 (its denominator is 10^k)
RECURSIVE ZoomDepth(_)
ZoomDepth(d) == IF d <= 1 THEN 0 ELSE 1 + ZoomDepth(d \div 10)

\* the model follows the data points up to n of them
RoomForData(n) == Len(axis_points) < 4 \/ Len(data_points) < n

\* the model follows the zoom up to n steps
RoomForZoom(n) == ZoomDepth(scale[2]) < n

\* the model follows a pan while both offsets stay within n screen pixels
WithinOffset(n) ==
  /\ Abs(offset_x'[1]) <= n * offset_x'[2]
  /\ Abs(offset_y'[1]) <= n * offset_y'[2]

Next ==
  \/ \E choice \in {"cancel", "unreadable", "ok"}, img \in ImageSizes :
       load_image(choice, img)
  \/ \E p \in Pointer : RoomForData(MaxData) /\ on_left_click(p[1], p[2])
  \/ \E sel \in SUBSET (1..Len(tree)) : delete_selected(sel)
  \/ clear_table
  \/ \E sel \in SUBSET (1..Len(tree)) : edit_entry(sel)
  \/ \E p \in WheelAt, delta \in {1, -1} :
       RoomForZoom(MaxZoom) /\ on_zoom(p[1], p[2], delta)
  \/ \E p \in PressAt : start_pan(p[1], p[2])
  \/ \E p \in PressAt : start_pan_shift(p[1], p[2])
  \/ \E p \in Pointer : do_pan(p[1], p[2]) /\ WithinOffset(MaxOffset)
  \/ end_pan
  \/ \E k \in 1..4 : \E t \in EntryTexts(k) : type_entry(k, t)
  \/ \E save \in {"cancel", "ok", "unwritable"} : export_csv(save)
  \/ plot_data
  \/ reset_all

Spec == Init /\ [][Next]_vars

-----------------------------------------------------------------------------
(* The calibration alone: the controller with an image loaded or not, any  *)
(* of a few axis-point lists and any text in the four entries, and the      *)
(* pointer moving over the canvas (on_mouse_move shows what                 *)
(* compute_calibrated_point returns).                                       *)

CalibImage == <<200, 100>>

\* the axis points of the scenario, degenerate ones, ones off the image's
\* edges, and lists still being collected
CalibAxisCases ==
  { <<>>,
    << <<10, 0>> >>,
    << <<10, 0>>, <<110, 0>>, <<0, 80>> >>,
    << <<10, 0>>, <<110, 0>>, <<0, 80>>, <<0, 0>> >>,
    << <<10, 7>>, <<110, 9>>, <<3, 80>>, <<5, 0>> >>,
    << <<110, 0>>, <<10, 0>>, <<0, 0>>, <<0, 80>> >>,
    << <<10, 0>>, <<10, 50>>, <<0, 80>>, <<0, 0>> >>,
    << <<10, 0>>, <<110, 0>>, <<0, 80>>, <<40, 80>> >> }

\* what the entries hold: nothing, a word, numerals, and the words float() reads
CalibTexts ==
  {EmptyText, <<"abc">>, Dec(0, 0), Dec(100, 0), Dec(1, 0), <<"inf">>, <<"nan">>}

\* where the pointer moves
CalibPointer == {<<60, 40>>, <<10, 80>>, <<0, 0>>, <<150, 99>>}

InitCalib ==
  /\ image \in {None, CalibImage}
  /\ scale = Float(1, 1)
  /\ offset_x = Float(0, 1)
  /\ offset_y = Float(0, 1)
  /\ drag_start = None
  /\ axis_points \in (IF image = None THEN {<<>>} ELSE CalibAxisCases)
  /\ data_points = <<>>
  /\ panning_by_shift = FALSE
  /\ x0_entry \in CalibTexts
  /\ x1_entry \in CalibTexts
  /\ y0_entry \in CalibTexts
  /\ y1_entry \in CalibTexts
  /\ tree = <<>>
  /\ pixel_label = NoPixel
  /\ calib_label = NoCalib
  /\ output = NoOutput

NextCalib == \E p \in CalibPointer : on_mouse_move(p[1], p[2])

SpecCalib == InitCalib /\ [][NextCalib]_vars

-----------------------------------------------------------------------------
(* The view alone: an image is loaded, then wheel and drag events.          *)

\* most zoom steps the view specification follows
MaxViewZoom ==
  2

ViewImage == <<6, 4>>

\* where the wheel is turned and where drags start and move to
ViewPointer == {<<1, 0>>, <<4, 2>>}

NextView ==
  \/ load_image("ok", ViewImage)
  \/ \E p \in ViewPointer, delta \in {1, -1} :
       RoomForZoom(MaxViewZoom) /\ on_zoom(p[1], p[2], delta)
  \/ \E p \in ViewPointer : start_pan(p[1], p[2])
  \/ \E p \in ViewPointer : start_pan_shift(p[1], p[2])
  \/ \E p \in ViewPointer : do_pan(p[1], p[2]) /\ WithinOffset(MaxOffset)
  \/ end_pan
  \/ reset_all

SpecView == Init /\ [][NextView]_vars

-----------------------------------------------------------------------------
(* The points and the table alone: the controller with the axis-value       *)
(* entries left as they are and nothing exported or plotted.                *)

NextPoints ==
  \/ \E img \in ImageSizes : load_image("ok", img)
  \/ \E p \in Pointer : RoomForData(MaxData) /\ on_left_click(p[1], p[2])
  \/ \E sel \in SUBSET (1..Len(tree)) : delete_selected(sel)
  \/ clear_table
  \/ \E sel \in SUBSET (1..Len(tree)) : edit_entry(sel)
  \/ \E p \in WheelAt, delta \in {1, -1} :
       RoomForZoom(MaxZoom) /\ on_zoom(p[1], p[2], delta)
  \/ \E p \in PressAt : start_pan(p[1], p[2])
  \/ \E p \in PressAt : start_pan_shift(p[1], p[2])
  \/ \E p \in Pointer : do_pan(p[1], p[2]) /\ WithinOffset(MaxOffset)
  \/ end_pan
  \/ reset_all

SpecPoints == Init /\ [][NextPoints]_vars

(* Clicks on images of two sizes: a larger and a smaller image loaded in    *)
(* either order, clicked inside and outside under zoomed and panned views.  *)

\* the images loaded, as <<width, height>>
ClampImages ==
  {<<3, 3>>, <<2, 2>>}

\* click positions: inside the larger image only, and past both
ClampPointer ==
  {<<2, 2>>, <<5, 0>>}

\* where a pan started at PressAt drags to: the image moves right and down, so
\* that a click near the canvas origin resolves to negative image coordinates
ClampDragTo ==
  {<<3, 7>>}

NextClamp ==
  \/ \E choice \in {"cancel", "unreadable", "ok"}, img \in ClampImages :
       load_image(choice, img)
  \/ \E p \in ClampPointer : RoomForData(MaxData) /\ on_left_click(p[1], p[2])
  \/ \E p \in WheelAt : RoomForZoom(MaxZoom) /\ on_zoom(p[1], p[2], 1)
  \/ \E p \in PressAt : start_pan(p[1], p[2])
  \/ \E p \in ClampDragTo : do_pan(p[1], p[2]) /\ WithinOffset(MaxOffset)
  \/ end_pan
  \/ reset_all

SpecClamp == Init /\ [][NextClamp]_vars

(* The end-to-end scenario: a 200x100 image, the four axis points and the   *)
(* data point clicked in the scenario's order at scale 1 and zero offset,   *)
(* the axis values typed at any moment, rows deleted and the table exported *)
(* or plotted at any moment.                                                *)

\* the clicks of the scenario, in order: X0, X1, Y0, Y1, then the data point
ScenarioClicks ==
  << <<10, 0>>, <<110, 0>>, <<0, 80>>, <<0, 0>>, <<60, 40>> >>

\* the n-th click since the load: the scenario's, the data point repeated after it
ScenarioClick(n) == ScenarioClicks[min(n, Len(ScenarioClicks))]

\* the axis values of the scenario, as typed into X0, X1, Y0, Y1
ScenarioTexts == <<Dec(0, 0), Dec(100, 0), Dec(0, 0), Dec(100, 0)>>

NextScenario ==
  \/ load_image("ok", CalibImage)
  \/ \E p \in {ScenarioClick(Len(axis_points) + Len(data_points) + 1)} :
       RoomForData(MaxData) /\ on_left_click(p[1], p[2])
  \/ \E k \in 1..4 : \E t \in {EmptyText, ScenarioTexts[k]} : type_entry(k, t)
  \/ \E sel \in SUBSET (1..Len(tree)) : delete_selected(sel)
  \/ \E sel \in SUBSET (1..Len(tree)) : edit_entry(sel)
  \/ \E save \in {"cancel", "ok", "unwritable"} : export_csv(save)
  \/ plot_data
  \/ reset_all

SpecScenario == Init /\ [][NextScenario]_vars

(* The axis points under every handler that runs once they are complete:    *)
(* clicks, zoom, the middle-button pan, deletions, export and plot, with    *)
(* the axis-value entries left as they are.                                 *)

NextAxes ==
  \/ \E img \in ImageSizes : load_image("ok", img)
  \/ \E p \in Pointer : RoomForData(MaxData) /\ on_left_click(p[1], p[2])
  \/ \E sel \in SUBSET (1..Len(tree)) : delete_selected(sel)
  \/ clear_table
  \/ \E sel \in SUBSET (1..Len(tree)) : edit_entry(sel)
  \/ \E p \in WheelAt : RoomForZoom(MaxZoom) /\ on_zoom(p[1], p[2], 1)
  \/ \E p \in PressAt : start_pan(p[1], p[2])
  \/ \E p \in Pointer : do_pan(p[1], p[2]) /\ WithinOffset(MaxOffset)
  \/ end_pan
  \/ export_csv("ok")
  \/ plot_data
  \/ reset_all

SpecAxes == Init /\ [][NextAxes]_vars

(* The status bar's pixel readout under zoomed and panned views.            *)

NextReadout ==
  \/ load_image("ok", ViewImage)
  \/ \E p \in ViewPointer, delta \in {1, -1} :
       RoomForZoom(MaxViewZoom) /\ on_zoom(p[1], p[2], delta)
  \/ \E p \in ViewPointer : start_pan(p[1], p[2])
  \/ \E p \in ViewPointer : do_pan(p[1], p[2]) /\ WithinOffset(MaxOffset)
  \/ end_pan
  \/ \E p \in ViewPointer : on_mouse_move(p[1], p[2])

SpecReadout == Init /\ [][NextReadout]_vars

-----------------------------------------------------------------------------
(* Claims. *)

\* C1: after any sequence of data-point clicks, row deletions (delete_selected
\* or edit_entry), zoom events and pan events, the table has as many rows as
\* there are data points, and the index column is 1..N in row order.
C1_TableMatchesData ==
  /\ Len(tree) = Len(data_points)
  /\ \A i \in 1..Len(tree) : tree[i][1] = i

\* C1, its case: edit_entry has just removed one of two rows, after a zoom
\* step and with a pan in progress.
C1_Witness ==
  /\ output = ShowInfo("Edit")
  /\ Len(tree) = 1
  /\ scale # Float(1, 1)
  /\ drag_start # None

\* C2: in every reachable state each table row's calibrated fields are what
\* pixelToData gives for the row's pixel under the current axis points and the
\* current axis-value inputs (empty when calibration is unavailable), also
\* right after an axis-value text field is changed.
C2_TableCurrent == tree = refresh_table(data_points)

\* C3: a left click adds no axis point, no data point and no table row
\* whenever no image is loaded or a pan is in progress (between a pan press
\* and its release), for the middle-button pan and for the Shift+Left pan.
C3_NoClickMidPan ==
  [][\A p \in Pointer :
       (on_left_click(p[1], p[2]) /\ (image = None \/ drag_start # None))
         => UNCHANGED <<axis_points, data_points, tree>>]_vars

\* what C4 asks of one step: a load or a reset empties the axis points, and a
\* qualifying click appends its pixel to the axis points while fewer than 4
\* exist and to the data points otherwise
C4_Step ==
  /\ (reset_all \/ \E img \in ImageSizes : load_image("ok", img))
        => axis_points' = <<>>
  /\ \A p \in Pointer :
       (on_left_click(p[1], p[2]) /\ image # None /\ ~panning_by_shift)
         => IF Len(axis_points) < 4
            THEN /\ axis_points' = Append(axis_points, ClickPixel(p[1], p[2]))
                 /\ data_points' = data_points
            ELSE /\ axis_points' = axis_points
                 /\ data_points' = Append(data_points, ClickPixel(p[1], p[2]))

\* C4: after a load or reset the first four qualifying clicks become the axis
\* points in click order (X0, X1, Y0, Y1); there are never more than 4 axis
\* points, and a click made when 4 exist is stored as a data point.
C4_AxisCapacity ==
  /\ [](Len(axis_points) <= 4)
  /\ [][C4_Step]_vars

\* C4, its case: four axis points exist and a fifth click became a data point.
C4_Witness ==
  /\ Len(axis_points) = 4
  /\ axis_points[1] # axis_points[2]
  /\ Len(data_points) = 1

\* X0 and X1 share their pixel X, or Y0 and Y1 their pixel Y
DegenerateAxes ==
  \/ axis_points[2][1] = axis_points[1][1]
  \/ axis_points[3][2] = axis_points[4][2]

\* C5: with 4 axis points of degenerate geometry and at least one data point,
\* export and plot report the zero-division validation error and neither
\* write a file nor draw a plot.
C5_DegenerateBlocksExport ==
  [][( /\ (plot_data \/ export_csv("ok"))
       /\ Len(axis_points) = 4
       /\ DegenerateAxes
       /\ data_points # <<>> )
       => output' = ShowError("zero division")]_vars

\* C6: the pairs handed to the plot are calibrated pairs for every row or
\* pixel pairs for every row, never a mix.
C6_NoMixedPlot ==
  output.kind = "plot"
    => \/ \A i \in 1..Len(output.rows) : output.rows[i][1] = "calib"
       \/ \A i \in 1..Len(output.rows) : output.rows[i][1] = "pixel"

\* an axis-value text that parses as a finite number
ParsesFinite(t) == float(t) # ValueError /\ IsFinite(float(t))

\* calibration is available: exactly 4 axis points, four finite axis values,
\* X0 and X1 apart in pixel X, Y0 and Y1 apart in pixel Y
CalibrationAvailable ==
  /\ Len(axis_points) = 4
  /\ ParsesFinite(x0_entry)
  /\ ParsesFinite(x1_entry)
  /\ ParsesFinite(y0_entry)
  /\ ParsesFinite(y1_entry)
  /\ ~DegenerateAxes

\* C7: pixelToData returns None whenever calibration is not available:
\* fewer or more than 4 axis points, an axis value that does not parse as a
\* finite number (empty, or parsing to infinity or NaN), or degenerate axes.
C7_AbsentWhenUnavailable ==
  ~CalibrationAvailable
    => \A p \in CalibPointer :
         compute_calibrated_point(Float(p[1], 1), Float(p[2], 1)) = None

\* n/d = a0/b0 + k * (a1/b1 - a0/b0) / D, over the integers
IsInterpolation(v, v0, v1, k, D) ==
  v[1] * (v0[2] * v1[2] * D)
    = v[2] * (v0[1] * v1[2] * D + k * (v1[1] * v0[2] - v0[1] * v1[2]))

\* the axis points and axis values of the scenario of the specification
ScenarioCalibration ==
  /\ axis_points = << <<10, 0>>, <<110, 0>>, <<0, 80>>, <<0, 0>> >>
  /\ entries = <<Dec(0, 0), Dec(100, 0), Dec(0, 0), Dec(100, 0)>>

\* C8: when calibration is available, pixelToData(pixelX, pixelY) is
\* x = x0Val + (pixelX - X0.pixelX) * (x1Val - x0Val) / (X1.pixelX - X0.pixelX),
\* y = y0Val + (Y0.pixelY - pixelY) * (y1Val - y0Val) / (Y0.pixelY - Y1.pixelY);
\* with X0=(10,0), X1=(110,0), Y0=(0,80), Y1=(0,0) and values 0,100,0,100 it
\* maps pixel (60,40) to (50,50).
C8_LinearCalibration ==
  /\ CalibrationAvailable /\ image # None
       => \A p \in CalibPointer :
            LET r == compute_calibrated_point(Float(p[1], 1), Float(p[2], 1))
            IN  /\ r # None
                /\ IsFinite(r[1]) /\ IsFinite(r[2])
                /\ IsInterpolation(r[1], float(x0_entry), float(x1_entry),
                                   p[1] - axis_points[1][1],
                                   axis_points[2][1] - axis_points[1][1])
                /\ IsInterpolation(r[2], float(y0_entry), float(y1_entry),
                                   axis_points[3][2] - p[2],
                                   axis_points[3][2] - axis_points[4][2])
  /\ ScenarioCalibration /\ image # None
       => compute_calibrated_point(Float(60, 1), Float(40, 1))
            = <<Float(50, 1), Float(50, 1)>>

\* C8, its case: in the scenario the pointer is over pixel (60,40) and the
\* status bar shows the calibrated point (50,50).
C8_Witness ==
  /\ ScenarioCalibration
  /\ pixel_label = <<"Pixel", 60, 40>>
  /\ calib_label = <<"Calib", Dec(50, 0), Dec(50, 0)>>

\* C9: for any view with scale > 0, any offsets and any anchor (mx,my), the
\* image coordinate ((mx - offsetX)/scale, (my - offsetY)/scale) under the
\* anchor is the same before and after a zoom event there, in and out.
C9_PointerCentricZoom ==
  [][\A p \in ViewPointer, delta \in {1, -1} :
       (image # None /\ on_zoom(p[1], p[2], delta))
         => ToImage(p[1], p[2], scale', offset_x', offset_y')
              = ToImage(p[1], p[2], scale, offset_x, offset_y)]_vars

\* C9, its case: two zoom steps have been taken and both offsets have moved.
C9_Witness ==
  /\ scale[2] = 100
  /\ offset_x[2] = 100
  /\ offset_y[2] # 1

\* C10, as claimed: a zoom event multiplies the scale by exactly 1.1 (in) or
\* exactly 1/1.1 (out), so a zoom-in followed by a zoom-out at the same anchor
\* restores the previous scale and offsets.
C10_ZoomOutUndoesZoomIn ==
  [][\A p \in ViewPointer, delta \in {1, -1} :
       (image # None /\ on_zoom(p[1], p[2], delta))
         => /\ delta > 0 => /\ scale' = FMul(scale, Float(11, 10))
                            /\ ZoomedView(p[1], p[2], -1, scale', offset_x', offset_y')
                                 = <<scale, offset_x, offset_y>>
            /\ delta < 0 => FMul(scale', Float(11, 10)) = scale]_vars

\* C10, amended: a zoom event multiplies the scale by exactly 1.1 (in) or
\* exactly 0.9 (out); a zoom-in followed by a zoom-out at the same anchor
\* leaves the scale at 0.99 of what it was and keeps the image point under
\* the anchor, so the offsets come back only where the anchor is the offset.
C10_ZoomFactors ==
  [][\A p \in ViewPointer, delta \in {1, -1} :
       (image # None /\ on_zoom(p[1], p[2], delta))
         => /\ delta > 0 =>
                 LET back == ZoomedView(p[1], p[2], -1, scale', offset_x', offset_y')
                 IN  /\ scale' = FMul(scale, Float(11, 10))
                     /\ back[1] = FMul(scale, Float(99, 100))
                     /\ ToImage(p[1], p[2], back[1], back[2], back[3])
                          = ToImage(p[1], p[2], scale, offset_x, offset_y)
                     /\ (back[2] = offset_x) <=> (offset_x = Float(p[1], 1))
                     /\ (back[3] = offset_y) <=> (offset_y = Float(p[2], 1))
            /\ delta < 0 => scale' = FMul(scale, Float(9, 10))]_vars

\* C10, its case: a zoom-in and then a zoom-out have left the scale at 0.99.
C10_Witness == scale = Float(99, 100) /\ offset_x # Float(0, 1)

InsideImage(p) ==
  /\ image # None
  /\ 0 <= p[1] /\ p[1] <= image[1] - 1
  /\ 0 <= p[2] /\ p[2] <= image[2] - 1

\* the valid coordinate of 0..n-1 nearest to the real number a
Nearest(a, n) ==
  IF a[1] < 0 THEN 0 ELSE IF a[1] >= n * a[2] THEN n - 1 ELSE a[1] \div a[2]

\* C12: every stored axis point and data point lies inside the currently
\* loaded image, 0 <= pixelX <= width-1 and 0 <= pixelY <= height-1, for any
\* click position and view, also after a smaller image is loaded; a click
\* resolving outside the image is stored at the nearest valid pixel.
C12_PointsInsideImage ==
  /\ [](/\ \A i \in 1..Len(axis_points) : InsideImage(axis_points[i])
        /\ \A i \in 1..Len(data_points) : InsideImage(data_points[i]))
  /\ [][\A p \in ClampPointer :
          (on_left_click(p[1], p[2]) /\ image # None /\ ~panning_by_shift)
            => LET at == ToImage(p[1], p[2], scale, offset_x, offset_y)
                   stored == IF Len(axis_points) < 4
                             THEN axis_points'[Len(axis_points')]
                             ELSE data_points'[Len(data_points')]
               IN  stored = <<Nearest(at[1], image[1]), Nearest(at[2], image[2])>>]_vars

\* C12, its case: on the smaller image, under a zoomed and panned view, a
\* click past the right edge and a click into the image have been stored.
C12_Witness ==
  /\ image = <<2, 2>>
  /\ scale # Float(1, 1)
  /\ offset_x # Float(0, 1)
  /\ Len(axis_points) = 4
  /\ \E i \in 1..4 : axis_points[i] = <<1, 0>>
  /\ \E i \in 1..Len(data_points) : data_points[i][1] = 0

\* C13: after a pan release the panning flag is false and the drag anchor is
\* cleared, with or without a motion event between press and release, and a
\* left click made in that state on a loaded image is stored as a point.
C13_ReleaseEndsPan ==
  /\ [][end_pan => (drag_start' = None /\ panning_by_shift' = FALSE)]_vars
  /\ [][\A p \in Pointer :
          ( /\ on_left_click(p[1], p[2])
            /\ image # None /\ drag_start = None /\ panning_by_shift = FALSE )
            => Len(axis_points') + Len(data_points')
                 = Len(axis_points) + Len(data_points) + 1]_vars

\* C13, its case: a pan has moved the image and has been released, and a
\* click has been stored.
C13_Witness ==
  /\ scale = Float(1, 1)
  /\ offset_x # Float(0, 1)
  /\ drag_start = None
  /\ panning_by_shift = FALSE
  /\ Len(axis_points) = 1

\* C14: in the scenario (200x100 image, axis points (10,0), (110,0), (0,80),
\* (0,0), axis values 0, 100, 0, 100 entered, then a data point clicked at
\* (60,40)) the export writes the single data row 60,40,50,50.
C14_ScenarioRow ==
  ( /\ image = CalibImage
    /\ ScenarioCalibration
    /\ data_points = << <<60, 40>> >>
    /\ tree = << <<1, 60, 40, Dec(50, 0), Dec(50, 0)>> >>
    /\ output.kind = "csv" )
    => output.rows
         = <<CsvHeader, <<StrInt(60), StrInt(40), Dec(50, 0), Dec(50, 0)>> >>

\* C15: re-deriving the table is idempotent: refresh_table run twice with no
\* change to data points, axis points or axis values in between leaves the
\* same rows as run once, from any table, and the table a refreshing handler
\* (a deletion or an edit) leaves is not changed by a further refresh_table.
C15_RefreshIdempotent ==
  /\ [](RefreshedTree(RefreshedTree(tree, data_points), data_points)
          = RefreshedTree(tree, data_points))
  /\ [][(\E sel \in SUBSET (1..Len(tree)) :
           sel # {} /\ (delete_selected(sel) \/ edit_entry(sel)))
          => tree' = RefreshedTree(tree', data_points')]_vars

\* C15, its case: a row with calibrated cells is left after another row was
\* removed through edit_entry.
C15_Witness ==
  /\ output = ShowInfo("Edit")
  /\ Len(tree) = 1
  /\ tree[1][4] = Dec(50, 0)

\* C16: the data-point list is non-empty only when exactly 4 axis points
\* exist, across clicks, deletions, clear-table, zoom, pan, reset and load.
C16_DataNeedsFourAxes == Len(data_points) > 0 => Len(axis_points) = 4

\* C16, its case: two data points are stored and a pan is in progress.
C16_Witness ==
  /\ Len(data_points) = 2
  /\ Len(axis_points) = 4
  /\ drag_start # None

\* C17: once 4 axis points exist, no click, zoom, pan, row deletion,
\* clear-table, export or plot changes the axis-point sequence; it changes
\* only on reset or a successful image load, which empty it.
C17_AxesFrozen ==
  [][Len(axis_points) = 4
       => \/ axis_points' = axis_points
          \/ /\ axis_points' = <<>>
             /\ reset_all \/ \E img \in ImageSizes : load_image("ok", img)]_vars

\* C17, its case: with 4 axis points stored the table has been exported
\* under a zoomed view.
C17_Witness ==
  /\ Len(axis_points) = 4
  /\ output.kind = "csv"
  /\ scale # Float(1, 1)

\* the positions of 1..n that are not selected
Unselected(n, sel) == (1..n) \ sel

\* the j-th smallest position of the set K
NthOf(K, j) == CHOOSE k \in K : Cardinality({m \in K : m <= k}) = j

C19_ClickAppendsOne ==
  [][\A p \in Pointer :
       ( /\ on_left_click(p[1], p[2])
         /\ image # None /\ ~panning_by_shift /\ Len(axis_points) = 4 )
         => LET at  == ToImage(p[1], p[2], scale, offset_x, offset_y)
                pix == <<Nearest(at[1], image[1]), Nearest(at[2], image[2])>>
                n   == Len(data_points)
            IN  /\ data_points' = data_points \o <<pix>>
                /\ Len(tree') = Len(tree) + 1
                /\ SubSeq(tree', 1, Len(tree)) = tree
                /\ SubSeq(tree'[Len(tree')], 1, 3) = <<n + 1, pix[1], pix[2]>>
                /\ axis_points' = axis_points]_vars

\* C19, its case: the same pixel is stored twice, as rows 1 and 2.
C19_Witness ==
  /\ Len(data_points) = 2
  /\ data_points[1] = data_points[2]
  /\ Len(tree) = 2
  /\ tree[2][1] = 2
  /\ <<tree[2][2], tree[2][3]>> = data_points[2]

\* a zoom event
ZoomEvent == \E p \in WheelAt, delta \in {1, -1} : on_zoom(p[1], p[2], delta)

\* a pan event: a press, a drag motion or the release
PanEvent ==
  \/ \E p \in PressAt : start_pan(p[1], p[2]) \/ start_pan_shift(p[1], p[2])
  \/ \E p \in Pointer : do_pan(p[1], p[2])
  \/ end_pan

\* C20: zoom and pan events leave the axis-point list and the data-point list
\* unchanged (so the controller stays in AwaitingAxisPoints or in
\* AwaitingDataPoints); a pan leaves the scale unchanged; a zoom event with no
\* image loaded, and a pan motion with no press before it, change no state.
C20_ZoomPanFrame ==
  [][ /\ UNCHANGED <<axis_points, data_points>> \/ ~(ZoomEvent \/ PanEvent)
      /\ UNCHANGED scale \/ ~PanEvent
      /\ \/ UNCHANGED <<image, view, drag_start, axis_points, data_points,
                        panning_by_shift, entries, tree, labels>>
         \/ ~( \/ (image = None /\ ZoomEvent)
               \/ (drag_start = None /\ \E p \in Pointer : do_pan(p[1], p[2])) ) ]_vars

\* C20, its case: the view was zoomed in and a Shift pan is in progress while
\* the axis points are still being collected.
C20_Witness ==
  /\ scale = Float(11, 10)
  /\ Len(axis_points) = 2
  /\ drag_start # None
  /\ panning_by_shift = TRUE
  /\ offset_y # Float(0, 1)

\* the offsets relative to the pointer position (x, y)
OffsetsFrom(ox, oy, x, y) == <<FSub(ox, Float(x, 1)), FSub(oy, Float(y, 1))>>

\* C21: over one pan sub-session (press, motions, release) the total change
\* of (offsetX, offsetY) is the last motion's pointer position minus the
\* press position, however many motions there were: the press and the
\* release leave the offsets alone and anchor the pointer, and each motion
\* adds exactly its delta from the previous pointer position, so that
\* offsets minus pointer position stays what it was at the press.
C21_PanTelescopes ==
  [][ /\ \A p \in ViewPointer :
           (start_pan(p[1], p[2]) \/ start_pan_shift(p[1], p[2]))
             => (drag_start' = p /\ UNCHANGED <<offset_x, offset_y>>)
      /\ \A p \in ViewPointer :
           (drag_start # None /\ do_pan(p[1], p[2]))
             => /\ offset_x' = FAdd(offset_x, Float(p[1] - drag_start[1], 1))
                /\ offset_y' = FAdd(offset_y, Float(p[2] - drag_start[2], 1))
                /\ drag_start' = p
                /\ OffsetsFrom(offset_x', offset_y', p[1], p[2])
                     = OffsetsFrom(offset_x, offset_y, drag_start[1], drag_start[2])
      /\ end_pan => UNCHANGED <<offset_x, offset_y>> ]_vars

\* C21, its case: at scale 1 a pan pressed at (1,0) has been dragged to
\* (4,2), and the offsets are (3,2).
C21_Witness ==
  /\ scale = Float(1, 1)
  /\ drag_start = <<4, 2>>
  /\ offset_x = Float(3, 1)
  /\ offset_y = Float(2, 1)

\* C22: after reset_all or a successful image load there are zero axis
\* points, zero data points, an empty table, scale = 1 and offsets (0,0),
\* from any prior state; a cancelled or failed image load leaves points,
\* table and view unchanged.
C22_ResetAndLoad ==
  [][ /\ (reset_all \/ \E img \in ClampImages : load_image("ok", img))
           => /\ axis_points' = <<>>
              /\ data_points' = <<>>
              /\ tree' = <<>>
              /\ scale' = Float(1, 1)
              /\ offset_x' = Float(0, 1)
              /\ offset_y' = Float(0, 1)
      /\ (\E choice \in {"cancel", "unreadable"}, img \in ClampImages :
            load_image(choice, img))
           => UNCHANGED <<image, axis_points, data_points, tree, view>> ]_vars

\* C22, its case: a load has just failed on a zoomed and panned view with
\* axis points, a data point and its row, all still there.
C22_Witness ==
  /\ output = ShowError("Load error")
  /\ Len(axis_points) = 4
  /\ Len(data_points) = 1
  /\ Len(tree) = 1
  /\ scale # Float(1, 1)
  /\ offset_x # Float(0, 1)

\* C23: for every pointer position and view, the image pixel on_mouse_move
\* shows in the status bar is the pixel on_left_click would store for a
\* click at that position.
C23_ReadoutIsClickPixel ==
  [][\A p \in ViewPointer :
       (image # None /\ on_mouse_move(p[1], p[2]))
         => pixel_label' = PixelText(ClickPixel(p[1], p[2]))]_vars

====
